---- MODULE Spec2Model ----
(***************************************************************************)
(* Model of the TFModel serving adapter of serving_code.ipynb: the         *)
(* constructor, load and the three request hooks preprocess, predict and   *)
(* postprocess, driven by a hosting runtime that constructs the adapter,   *)
(* loads it and serves requests in concurrently running slots.             *)
(*                                                                         *)
(* Python values are modelled as follows.                                  *)
(*   object / dict : a function whose DOMAIN is the set of attributes or   *)
(*                   keys that exist (a missing one is not in the DOMAIN)  *)
(*   str           : the sequence of its Unicode code points where the     *)
(*                   code parses it (int()), a string or a sequence of     *)
(*                   characters otherwise                                  *)
(*   ndarray       : [shape |-> <<d1, ..>>, data |-> <<one id per sample>>]*)
(*                   for image tensors; a sequence of rows of scores for   *)
(*                   the predictor's output                                *)
(*   call outcome  : [self, raised, value] - the adapter after the call,   *)
(*                   whether the call raised, the returned value or the    *)
(*                   raised exception                                      *)
(* Scores are fixed-point integers (per cent).                             *)
(***************************************************************************)
EXTENDS Integers, Sequences, FiniteSets, TLC

VARIABLES interpreter, \* the Python interpreter the function runs on
          environ,    \* os.environ of the function's process
          files,      \* the file the classes_map variable names
          model_dir,  \* what the model directory holds under *.h5
          lifecycle,  \* "new", "init_failed", "unloaded", "loaded" or
                      \* "load_failed"
          init_error, \* the exception __init__ raised, or NoError
          loads,      \* number of calls of load so far
          self,       \* the TFModel instance
          req,        \* the request slots of the hosting runtime
          call        \* the last hook invoked directly: input and outcome

vars == <<interpreter, environ, files, model_dir, lifecycle, init_error,
          loads, self, req, call>>

-----------------------------------------------------------------------------
(* Bounds *)

\* longest batch of a directly invoked preprocess
MaxLen == 2
\* most rows and most scores per row of a directly postprocessed output
MaxRows == 2
MaxCols == 2
\* concurrently served requests
NumSlots == 2

-----------------------------------------------------------------------------
(* Python helpers *)

\* dict.get(key, default) / os.environ.get(key, default)
Get(d, key, default) == IF key \in DOMAIN d THEN d[key] ELSE default

\* hasattr(obj, name)
HasAttr(obj, name) == name \in DOMAIN obj

\* obj.name = v
SetAttr(obj, name, v) ==
    [a \in (DOMAIN obj) \cup {name} |-> IF a = name THEN v ELSE obj[a]]

Error(type) == [type |-> type, msg |-> <<>>]
NoError == Error("")

Return(obj, v) == [self |-> obj, raised |-> FALSE, value |-> v]
Raise(obj, e)  == [self |-> obj, raised |-> TRUE,  value |-> e]

\* the code points of the characters '0', '+', '-', '_', ' ' and '?'
Zero == 48
Plus == 43
Minus == 45
Underscore == 95
Space == 32
QuestionMark == 63

\* highest ASCII code point; the transformation of a text that is not all
\* ASCII keeps only the characters below it
MaxAscii == 127

Digits == Zero..(Zero + 9)

DigitVal(c) == c - Zero

\* the default of sys.get_int_max_str_digits() where the interpreter limits
\* the digits of a decimal literal, and the lowest limit that can be
\* configured (PYTHONINTMAXSTRDIGITS, -X int_max_str_digits)
MaxStrDigits == 4300
MinStrDigits == 640

\* the interpreters the function may run on differ in what int() accepts: by
\* the version of the Unicode character database they carry (11.0 in
\* CPython 3.7 to 15.0 in 3.12) and by the limit on the digits of a literal
\* (0: no limit, as in the releases before it was introduced or when it is
\* switched off; else the default or a configured limit).  The notebook
\* names CPython 3.7.6.
CPython376 == [unicode |-> 11, max_str_digits |-> 0]

UnicodeVersions == 11..15

StrDigitLimits == {0, MinStrDigits, MaxStrDigits}

Interpreters ==
    {[unicode |-> u, max_str_digits |-> d] :
        u \in UnicodeVersions, d \in StrDigitLimits}

\* the code points of the zero of every run of ten decimal digits of the
\* Unicode character database 11.0 (Py_UNICODE_TODECIMAL)
DecimalZeros11 ==
    {48, 1632, 1776, 1984, 2406, 2534, 2662, 2790, 2918, 3046, 3174, 3302,
     3430, 3558, 3664, 3792, 3872, 4160, 4240, 6112, 6160, 6470, 6608,
     6784, 6800, 6992, 7088, 7232, 7248, 42528, 43216, 43264, 43472, 43504,
     43600, 44016, 65296, 66720, 68912, 69734, 69872, 69942, 70096, 70384,
     70736, 70864, 71248, 71360, 71472, 71904, 72784, 73040, 73120, 92768,
     93008, 120782, 120792, 120802, 120812, 120822, 125264}

\* the runs added by Unicode 12.0 (U+1E140, U+1E2F0), 13.0 (U+11950,
\* U+1FBF0), 14.0 (U+16AC0) and 15.0 (U+11F50, U+1E4F0)
DecimalZerosAdded(version) ==
    CASE version = 12 -> {123200, 123632}
      [] version = 13 -> {72016, 130032}
      [] version = 14 -> {92864}
      [] version = 15 -> {73552, 124144}

DecimalZeros(py) ==
    DecimalZeros11 \cup
        UNION {DecimalZerosAdded(v) : v \in 12..py.unicode}

IsDecimal(py, c) == \E z \in DecimalZeros(py) : z <= c /\ c <= z + 9

ToDecimal(py, c) ==
    c - (CHOOSE z \in DecimalZeros(py) : z <= c /\ c <= z + 9)

\* the characters above ASCII that Py_UNICODE_ISSPACE holds to be blank
UnicodeSpaces ==
    {133, 160, 5760, 8232, 8233, 8239, 8287, 12288} \cup (8192..8202)

\* the transformation int() applies to a str before it parses it.  A text
\* that is all ASCII is parsed as it is.  In any other text a character
\* below 127 is kept, a blank becomes a space and a decimal digit its ASCII
\* digit; the first character that is none of these becomes '?' and ends
\* the text.
TransformDecimalAndSpaceToASCII(py, s) ==
    IF \A i \in 1..Len(s) : s[i] <= MaxAscii THEN s
    ELSE LET bad == {i \in 1..Len(s) :
                        /\ s[i] >= MaxAscii
                        /\ s[i] \notin UnicodeSpaces
                        /\ ~ IsDecimal(py, s[i])}
             n   == IF bad = {} THEN Len(s)
                    ELSE CHOOSE i \in bad : \A j \in bad : i <= j
         IN [i \in 1..n |->
                IF s[i] < MaxAscii THEN s[i]
                ELSE IF s[i] \in UnicodeSpaces THEN Space
                ELSE IF IsDecimal(py, s[i]) THEN Zero + ToDecimal(py, s[i])
                ELSE QuestionMark]

\* the ASCII characters the parser skips at both ends (Py_ISSPACE): tab,
\* newline, vertical tab, form feed, carriage return and space
Whitespace == (9..13) \cup {Space}

RECURSIVE StripLeft(_)
StripLeft(s) ==
    IF Len(s) > 0 /\ Head(s) \in Whitespace THEN StripLeft(Tail(s)) ELSE s

RECURSIVE StripRight(_)
StripRight(s) ==
    IF Len(s) > 0 /\ s[Len(s)] \in Whitespace
    THEN StripRight(SubSeq(s, 1, Len(s) - 1))
    ELSE s

Strip(s) == StripRight(StripLeft(s))

Signed(s) == Len(s) > 0 /\ Head(s) \in {Plus, Minus}

\* what follows the optional sign of a stripped literal
Unsigned(s) == IF Signed(s) THEN Tail(s) ELSE s

\* digits, with single underscores allowed between two digits
DigitGroups(s) ==
    /\ Len(s) > 0
    /\ s[1] \in Digits
    /\ s[Len(s)] \in Digits
    /\ \A i \in 1..Len(s) : s[i] \in Digits \cup {Underscore}
    /\ \A i \in 1..(Len(s) - 1) :
          ~ (s[i] = Underscore /\ s[i + 1] = Underscore)

\* the digits of digit groups, leading zeros included, underscores not
DigitCount(s) == Cardinality({i \in 1..Len(s) : s[i] \in Digits})

\* the literal is longer than the interpreter's limit allows
TooManyDigits(py, s) ==
    py.max_str_digits > 0 /\ DigitCount(s) > py.max_str_digits

\* the value of digits: the underscores are skipped
RECURSIVE DigitsValue(_)
DigitsValue(s) ==
    IF Len(s) = 0 THEN 0
    ELSE IF s[Len(s)] = Underscore
    THEN DigitsValue(SubSeq(s, 1, Len(s) - 1))
    ELSE 10 * DigitsValue(SubSeq(s, 1, Len(s) - 1)) + DigitVal(s[Len(s)])

\* the value of digit groups: that of what follows their leading zeros
DecimalValue(s) ==
    LET significant == {i \in 1..Len(s) : s[i] \notin {Zero, Underscore}}
    IN IF significant = {} THEN 0
       ELSE DigitsValue(SubSeq(s,
                CHOOSE i \in significant : \A j \in significant : i <= j,
                Len(s)))

\* int(s) accepts surrounding blanks, one sign, then groups of the decimal
\* digits the interpreter knows, no more of them than its limit allows;
\* anything else is a ValueError
IntLiteral(py, s) ==
    LET t == Unsigned(Strip(TransformDecimalAndSpaceToASCII(py, s)))
    IN DigitGroups(t) /\ ~ TooManyDigits(py, t)

\* int(s) of an accepted literal
IntValue(py, s) ==
    LET t == Strip(TransformDecimalAndSpaceToASCII(py, s))
        v == DecimalValue(Unsigned(t))
    IN IF Signed(t) /\ Head(t) = Minus THEN 0 - v ELSE v

-----------------------------------------------------------------------------
(* Images: PIL and keras.preprocessing.image *)

\* number of bands of a PIL mode
Bands(mode) ==
    CASE mode = "L" -> 1 [] mode = "RGB" -> 3 [] mode = "RGBA" -> 4

\* Image.open(f): identifies the file lazily; fails on data that is no image
ImageOpenFails(f) == f.kind = "garbage"

\* img.resize((w, h)): loads the pixel data (fails on a truncated file) and
\* resamples it to width w and height h (fails unless both are at least 1)
ResizeFails(f, w, h) == f.kind = "truncated" \/ w < 1 \/ h < 1
Resize(f, w, h) == [size |-> <<w, h>>, mode |-> f.mode, px |-> f.px]

\* img_to_array with the two spatial axes in PIL's (width, height) order
img_to_array_wh(img) ==
    [shape |-> <<img.size[1], img.size[2], Bands(img.mode)>>,
     data  |-> <<img.px>>]

\* image.img_to_array(img): a (height, width, bands) array
img_to_array(img) ==
    [shape |-> <<img.size[2], img.size[1], Bands(img.mode)>>,
     data  |-> <<img.px>>]

\* np.expand_dims(x, axis=0)
expand_dims(x) == [shape |-> <<1>> \o x.shape, data |-> x.data]

RECURSIVE LeadingSum(_)
LeadingSum(arrays) ==
    IF Len(arrays) = 0 THEN 0
    ELSE Head(arrays).shape[1] + LeadingSum(Tail(arrays))

RECURSIVE ConcatData(_)
ConcatData(arrays) ==
    IF Len(arrays) = 0 THEN <<>>
    ELSE Head(arrays).data \o ConcatData(Tail(arrays))

\* a stacking that does not compare the shapes of the arrays
VstackFailsOnEmptyOnly(arrays) == Len(arrays) = 0

\* np.vstack(arrays) raises on an empty list and on arrays whose dimensions
\* other than the first differ
VstackFails(arrays) ==
    \/ Len(arrays) = 0
    \/ \E i \in 1..Len(arrays) :
          Tail(arrays[i].shape) # Tail(arrays[1].shape)

vstack(arrays) ==
    [shape |-> <<LeadingSum(arrays)>> \o Tail(arrays[1].shape),
     data  |-> ConcatData(arrays)]

-----------------------------------------------------------------------------
(* The predictor: a keras model with a fixed input shape *)

\* model.predict(images) for images = [tensor]: one row of scores per sample
PredictorFails(m, images) ==
    \/ Len(images) # 1
    \/ Tail(images[1].shape) # m.input_shape

PredictorOutput(m, images) ==
    [i \in 1..Len(images[1].data) |-> m.weights[images[1].data[i] + 1]]

\* np.max over a non-empty list
RECURSIVE NpMax(_)
NpMax(row) ==
    IF Len(row) = 1 THEN row[1]
    ELSE LET m == NpMax(Tail(row))
         IN IF Head(row) > m THEN Head(row) ELSE m

-----------------------------------------------------------------------------
(* class TFModel *)

NoneValue == [is_none |-> TRUE, value |-> <<>>]
Some(v)   == [is_none |-> FALSE, value |-> v]

\* json.load(open(environ['classes_map'], 'r')): the parsed mapping, or the
\* first exception on the way to it
ClassesRead(env, fs) ==
    IF ~ ("classes_map" \in DOMAIN env) THEN Raise(NoneValue, Error("KeyError"))
    ELSE IF ~ fs.exists THEN Raise(NoneValue, Error("FileNotFoundError"))
    ELSE IF ~ fs.readable THEN Raise(NoneValue, Error("PermissionError"))
    ELSE IF ~ fs.wellformed THEN Raise(NoneValue, Error("JSONDecodeError"))
    ELSE Return(NoneValue, Some(fs.doc))

\* the try/except around the read of the class-label mapping
ClassesOrNone(env, fs) ==
    LET r == ClassesRead(env, fs)
    IN IF r.raised THEN NoneValue ELSE r.value

\* __init__ without the try/except: a failed read of the mapping propagates
init_without_except(obj, py, env, fs) ==
    LET w == Get(env, "IMAGE_WIDTH", <<49, 50, 56>>)
        h == Get(env, "IMAGE_HEIGHT", <<49, 50, 56>>)
        c == ClassesRead(env, fs)
    IN IF ~ IntLiteral(py, w) \/ ~ IntLiteral(py, h) THEN Raise(obj, Error("ValueError"))
       ELSE LET s2 == SetAttr(SetAttr(obj, "IMAGE_WIDTH", IntValue(py, w)),
                              "IMAGE_HEIGHT", IntValue(py, h))
            IN IF c.raised THEN Raise(s2, c.value)
               ELSE Return(SetAttr(s2, "classes", c.value), NoneValue)

\* TFModel.__init__(self, name, model_dir)
__init__(obj, py, env, fs) ==
    LET w == Get(env, "IMAGE_WIDTH", <<49, 50, 56>>)
        h == Get(env, "IMAGE_HEIGHT", <<49, 50, 56>>)
    IN IF ~ IntLiteral(py, w) THEN Raise(obj, Error("ValueError"))
       ELSE LET s1 == SetAttr(obj, "IMAGE_WIDTH", IntValue(py, w))
            IN IF ~ IntLiteral(py, h) THEN Raise(s1, Error("ValueError"))
               ELSE LET s2 == SetAttr(s1, "IMAGE_HEIGHT", IntValue(py, h))
                    IN Return(SetAttr(s2, "classes", ClassesOrNone(env, fs)),
                              NoneValue)

\* TFModel.load(self)
load(obj, dir) ==
    IF dir.h5 = "missing" THEN Raise(obj, Error("FileNotFoundError"))
    ELSE IF dir.h5 = "corrupt" THEN Raise(obj, Error("OSError"))
    ELSE Return(SetAttr(obj, "model", dir.predictor), NoneValue)

\* a loop that skips the images it cannot open or resize
RECURSIVE PreprocessLoopSkipping(_, _, _)
PreprocessLoopSkipping(obj, instances, acc) ==
    IF Len(instances) = 0 THEN [failed |-> FALSE, arrays |-> acc]
    ELSE LET byte_image == Head(instances)
         IN IF \/ ImageOpenFails(byte_image)
               \/ ResizeFails(byte_image, obj.IMAGE_WIDTH, obj.IMAGE_HEIGHT)
            THEN PreprocessLoopSkipping(obj, Tail(instances), acc)
            ELSE LET img == Resize(byte_image, obj.IMAGE_WIDTH,
                                   obj.IMAGE_HEIGHT)
                     x   == expand_dims(img_to_array(img))
                 IN PreprocessLoopSkipping(obj, Tail(instances),
                                           Append(acc, x))

\* the loop of preprocess over instances[k..]: the list of per-image arrays,
\* or failed at the first image that cannot be opened or resized
RECURSIVE PreprocessLoop(_, _, _)
PreprocessLoop(obj, instances, acc) ==
    IF Len(instances) = 0 THEN [failed |-> FALSE, arrays |-> acc]
    ELSE LET byte_image == Head(instances)
         IN IF \/ ImageOpenFails(byte_image)
               \/ ResizeFails(byte_image, obj.IMAGE_WIDTH, obj.IMAGE_HEIGHT)
            THEN [failed |-> TRUE, arrays |-> acc]
            ELSE LET img == Resize(byte_image, obj.IMAGE_WIDTH,
                                   obj.IMAGE_HEIGHT)
                     x   == expand_dims(img_to_array(img))
                 IN PreprocessLoop(obj, Tail(instances), Append(acc, x))

GenericError(body) == [type |-> "Exception", msg |-> <<"received: ", body>>]

\* a preprocess that returns an empty tensor for an empty batch
preprocess_empty_tensor(obj, body) ==
    LET instances == Get(body, "instances", <<>>)
        loop      == PreprocessLoop(obj, instances, <<>>)
    IN IF Len(instances) = 0
       THEN Return(obj, [instances |->
                <<[shape |-> <<0, obj.IMAGE_HEIGHT, obj.IMAGE_WIDTH, 3>>,
                   data  |-> <<>>]>>])
       ELSE IF loop.failed \/ VstackFails(loop.arrays)
            THEN Raise(obj, GenericError(body))
            ELSE Return(obj, [instances |-> <<vstack(loop.arrays)>>])

\* a preprocess that keeps the size of the batch's first image on the adapter
preprocess_keeps_size(obj, body) ==
    LET instances == Get(body, "instances", <<>>)
        loop      == PreprocessLoop(obj, instances, <<>>)
    IN IF loop.failed \/ VstackFails(loop.arrays)
       THEN Raise(obj, GenericError(body))
       ELSE Return(SetAttr(obj, "IMAGE_WIDTH", instances[1].size[1]),
                   [instances |-> <<vstack(loop.arrays)>>])

\* TFModel.preprocess(self, body)
preprocess(obj, body) ==
    LET instances == Get(body, "instances", <<>>)
        loop      == PreprocessLoop(obj, instances, <<>>)
    IN IF loop.failed \/ VstackFails(loop.arrays)
       THEN Raise(obj, GenericError(body))
       ELSE Return(obj, [instances |-> <<vstack(loop.arrays)>>])

\* a predict that answers with a default row when no model is loaded
predict_default(obj, data) ==
    LET images == Get(data, "instances", <<>>)
    IN IF ~ HasAttr(obj, "model") THEN Return(obj, << <<0>> >>)
       ELSE IF PredictorFails(obj.model, images)
            THEN Raise(obj, Error("ValueError"))
            ELSE Return(obj, PredictorOutput(obj.model, images))

\* a predict that returns the previous call's prediction and keeps its own
predict_stale(obj, data) ==
    LET images == Get(data, "instances", <<>>)
    IN IF ~ HasAttr(obj, "model") THEN Raise(obj, Error("AttributeError"))
       ELSE IF PredictorFails(obj.model, images)
            THEN Raise(obj, Error("ValueError"))
            ELSE LET out == PredictorOutput(obj.model, images)
                 IN Return(SetAttr(obj, "last", out),
                           Get(obj, "last", out))

\* a predict that wraps its failures the way preprocess does
predict_wrapped(obj, data) ==
    LET images == Get(data, "instances", <<>>)
    IN IF ~ HasAttr(obj, "model") \/ PredictorFails(obj.model, images)
       THEN Raise(obj, GenericError(data))
       ELSE Return(obj, PredictorOutput(obj.model, images))

\* TFModel.predict(self, data)
predict(obj, data) ==
    LET images == Get(data, "instances", <<>>)
    IN IF ~ HasAttr(obj, "model") THEN Raise(obj, Error("AttributeError"))
       ELSE IF PredictorFails(obj.model, images)
            THEN Raise(obj, Error("ValueError"))
            ELSE Return(obj, PredictorOutput(obj.model, images))

\* a postprocess that reads the last row instead of the first
postprocess_last_row(obj, predicted_probability) ==
    IF Len(predicted_probability) = 0 THEN Raise(obj, Error("IndexError"))
    ELSE Return(obj, [k \in {"Mask probability"} |->
             NpMax(predicted_probability[Len(predicted_probability)])])

\* TFModel.postprocess(self, predicted_probability)
postprocess(obj, predicted_probability) ==
    IF Len(predicted_probability) = 0 THEN Raise(obj, Error("IndexError"))
    ELSE Return(obj, [k \in {"Mask probability"} |->
                        NpMax(predicted_probability[1])])

-----------------------------------------------------------------------------
(* Inputs *)

Garbage   == [kind |-> "garbage",   size |-> <<0, 0>>,     mode |-> "",     px |-> 0]
Truncated == [kind |-> "truncated", size |-> <<3, 2>>,     mode |-> "RGB",  px |-> 0]
ImgRGB0   == [kind |-> "image",     size |-> <<3, 2>>,     mode |-> "RGB",  px |-> 0]
ImgRGB1   == [kind |-> "image",     size |-> <<640, 480>>, mode |-> "RGB",  px |-> 1]
ImgGrey   == [kind |-> "image",     size |-> <<128, 128>>, mode |-> "L",    px |-> 1]

ValidImages == {ImgRGB0, ImgRGB1, ImgGrey}
ByteImages  == ValidImages \cup {Garbage, Truncated}

SeqsUpTo(S, n) == UNION {[1..k -> S] : k \in 0..n}

\* request bodies: with the instances key, or with another key in its place
BodiesOver(S, n) ==
    {[instances |-> s] : s \in SeqsUpTo(S, n)}
        \cup {[inputs |-> s] : s \in SeqsUpTo(S, 1)}

Bodies      == BodiesOver(ByteImages, MaxLen)

\* the bodies of the requests served through the slots
ServeBodies ==
    {[instances |-> <<ImgRGB0>>], [instances |-> <<ImgRGB1>>],
     [instances |-> <<ImgRGB1, ImgRGB0>>], [instances |-> <<ImgGrey>>],
     [instances |-> <<ImgRGB0, Garbage>>], [inputs |-> <<ImgRGB0>>]}

NoBody == [none |-> TRUE]

\* raw predictor outputs handed to postprocess: rows of per-class scores
Scores  == {10, 90}
Rows    == UNION {[1..k -> Scores] : k \in 1..MaxCols}
Outputs == SeqsUpTo(Rows, MaxRows)

\* class-label mappings a classes_map file may hold
LabelMaps == {<<"mask", "no mask">>}

FileStates ==
    {[exists |-> FALSE, readable |-> FALSE, wellformed |-> FALSE, doc |-> <<>>],
     [exists |-> TRUE,  readable |-> FALSE, wellformed |-> FALSE, doc |-> <<>>],
     [exists |-> TRUE,  readable |-> TRUE,  wellformed |-> FALSE, doc |-> <<>>]}
        \cup {[exists |-> TRUE, readable |-> TRUE, wellformed |-> TRUE,
               doc |-> d] : d \in LabelMaps}

GoodFile == [exists |-> TRUE, readable |-> TRUE, wellformed |-> TRUE,
             doc |-> <<"mask", "no mask">>]

\* os.environ: MODEL_CLASS is always set by the function's configuration
MkEnv(ws, hs, cs) ==
    [k \in {"MODEL_CLASS"} \cup ws.keys \cup hs.keys \cup cs.keys |->
        CASE k = "MODEL_CLASS"  -> <<"T", "F", "2">>
          [] k = "IMAGE_WIDTH"  -> ws.val
          [] k = "IMAGE_HEIGHT" -> hs.val
          [] k = "classes_map"  -> cs.val]

Unset        == [keys |-> {}, val |-> <<>>]
Setting(k, v) == [keys |-> {k}, val |-> v]

\* n digits: n - 1 zeros and a "7"
ZerosThenSeven(n) == [i \in 1..(n - 1) |-> Zero] \o <<Zero + 7>>

\* size settings, as code points: "2", "x", " 7 ", "-7", "1_0", "0", "1_",
\* vertical tab + "7", fullwidth "128", no-break space + "7", "7" + e-acute,
\* file separator (U+001C) + "7", the segmented digit seven (U+1FBF7, a
\* digit since Unicode 13.0), the Dives Akuru digit seven (U+11957, since
\* 13.0), and literals of as many digits as the default limit allows, of one
\* more, and of one more than the lowest limit allows
WidthSettings  ==
    {Unset} \cup
    {Setting("IMAGE_WIDTH", v) :
        v \in {<<50>>, <<120>>, <<32, 55, 32>>, <<45, 55>>, <<49, 95, 48>>,
               <<48>>, <<49, 95>>, <<11, 55>>, <<65297, 65298, 65304>>,
               <<160, 55>>, <<55, 233>>, <<28, 55>>, <<130039>>, <<72023>>,
               ZerosThenSeven(MaxStrDigits),
               ZerosThenSeven(MaxStrDigits + 1),
               ZerosThenSeven(MinStrDigits + 1)}}

\* "3", "", "3\n", "+3", "+ 3", "3" + vertical tab, Arabic-Indic "3",
\* fullwidth "-" + "3", the Kawi digit seven (U+11F57, a digit since Unicode
\* 15.0), DEL + fullwidth "7", the Warang Citi digit seven (U+118E7), the
\* Wancho digit three (U+1E2F3, a digit since Unicode 12.0)
HeightSettings ==
    {Unset} \cup
    {Setting("IMAGE_HEIGHT", v) :
        v \in {<<51>>, <<>>, <<51, 10>>, <<43, 51>>, <<43, 32, 51>>,
               <<51, 11>>, <<1635>>, <<65293, 51>>, <<73559>>,
               <<127, 65303>>, <<71911>>, <<123635>>}}
ClassesSettings == {Unset, Setting("classes_map", <<"c", ".", "j">>)}

Environs == {MkEnv(ws, hs, cs) : ws \in WidthSettings, hs \in HeightSettings,
                                 cs \in ClassesSettings}

ServeEnvirons ==
    {MkEnv(Unset, Unset, Unset),
     MkEnv(Setting("IMAGE_WIDTH", <<50>>), Setting("IMAGE_HEIGHT", <<51>>),
           Setting("classes_map", <<"c", ".", "j">>))}

\* predictors: input shape (height, width, channels) and one row of scores
\* per image content
NoPredictor == [input_shape |-> <<>>, weights |-> <<>>]
Predictor128 == [input_shape |-> <<128, 128, 3>>,
                 weights |-> << <<10, 90>>, <<70, 30>> >>]
Predictor3x2 == [input_shape |-> <<3, 2, 3>>,
                 weights |-> << <<20, 80>>, <<60, 40>> >>]

ModelDirs ==
    {[h5 |-> "missing", predictor |-> NoPredictor],
     [h5 |-> "corrupt", predictor |-> NoPredictor]}
        \cup {[h5 |-> "ok", predictor |-> p] :
                p \in {Predictor128, Predictor3x2}}

-----------------------------------------------------------------------------
(* The hosting runtime *)

NewObject == [class |-> "TFModel"]

IdleSlot == [pc |-> "idle", body |-> NoBody, after_load |-> FALSE,
             raised |-> FALSE, failed_in |-> "", value |-> <<>>]

NoCall == [hook |-> "none", arg |-> <<>>, before |-> NewObject,
           after |-> NewObject, raised |-> FALSE, value |-> <<>>]

Slots == 1..NumSlots

InitWith(pys, envs, fss, dirs) ==
    /\ interpreter \in pys
    /\ environ \in envs
    /\ files \in fss
    /\ model_dir \in dirs
    /\ lifecycle = "new"
    /\ init_error = NoError
    /\ loads = 0
    /\ self = NewObject
    /\ req = [i \in Slots |-> IdleSlot]
    /\ call = NoCall

\* __init__ has completed: the adapter exists
Constructed == lifecycle \in {"unloaded", "loaded", "load_failed"}

\* the runtime instantiates the model class
Construct ==
    /\ lifecycle = "new"
    /\ LET r == __init__(self, interpreter, environ, files)
       IN /\ self' = r.self
          /\ lifecycle' = IF r.raised THEN "init_failed" ELSE "unloaded"
          /\ init_error' = IF r.raised THEN r.value ELSE NoError
    /\ UNCHANGED <<interpreter, environ, files, model_dir, loads, req,
                   call>>

\* the runtime triggers load once, before traffic; a load that raises is a
\* startup failure, after which the adapter is never served
Load ==
    /\ lifecycle = "unloaded"
    /\ LET r == load(self, model_dir)
       IN /\ self' = r.self
          /\ lifecycle' = IF r.raised THEN "load_failed" ELSE "loaded"
          /\ loads' = loads + 1
    /\ UNCHANGED <<interpreter, environ, files, model_dir, init_error, req,
                   call>>

\* the runtime routes a request to the loaded adapter
Submit(i) ==
    /\ lifecycle = "loaded"
    /\ req[i].pc = "idle"
    /\ \E body \in ServeBodies :
          req' = [req EXCEPT ![i] =
                    [IdleSlot EXCEPT !.pc = "preprocess", !.body = body,
                                     !.after_load = (lifecycle = "loaded")]]
    /\ UNCHANGED <<interpreter, environ, files, model_dir, lifecycle,
                   init_error, loads, self, call>>

\* one hook of the request in slot i runs: an exception ends the request,
\* a return value is handed to the next hook
Step(i, hook, r, next) ==
    /\ self' = r.self
    /\ req' = [req EXCEPT ![i] =
                 IF r.raised
                 THEN [@ EXCEPT !.pc = "done", !.raised = TRUE,
                                !.failed_in = hook, !.value = r.value]
                 ELSE [@ EXCEPT !.pc = next, !.value = r.value]]
    /\ UNCHANGED <<interpreter, environ, files, model_dir, lifecycle,
                   init_error, loads, call>>

Preprocess(i) ==
    /\ req[i].pc = "preprocess"
    /\ Step(i, "preprocess", preprocess(self, req[i].body), "predict")

Predict(i) ==
    /\ req[i].pc = "predict"
    /\ Step(i, "predict", predict(self, req[i].value), "postprocess")

Postprocess(i) ==
    /\ req[i].pc = "postprocess"
    /\ Step(i, "postprocess", postprocess(self, req[i].value), "done")

\* the response (or the error) is sent and the slot is free again
Reply(i) ==
    /\ req[i].pc = "done"
    /\ req' = [req EXCEPT ![i] = IdleSlot]
    /\ UNCHANGED <<interpreter, environ, files, model_dir, lifecycle,
                   init_error, loads, self, call>>

\* the served function runs on the interpreter the notebook names; its size
\* settings are ASCII digits, which every interpreter reads alike
Init == InitWith({CPython376}, ServeEnvirons, {GoodFile}, ModelDirs)

\* the environments of the directly invoked hooks: those of the served
\* requests and one whose configured width is 0
HookEnvirons ==
    ServeEnvirons \cup {MkEnv(Setting("IMAGE_WIDTH", <<48>>), Unset, Unset)}

InitHooks == InitWith({CPython376}, HookEnvirons, {GoodFile}, ModelDirs)

Next ==
    \/ Construct
    \/ Load
    \/ \E i \in Slots : Submit(i)
    \/ \E i \in Slots : Preprocess(i)
    \/ \E i \in Slots : Predict(i)
    \/ \E i \in Slots : Postprocess(i)
    \/ \E i \in Slots : Reply(i)

Spec == Init /\ [][Next]_vars

-----------------------------------------------------------------------------
(* One hook invoked directly, once, on inputs of every shape *)

Invoke(hook, arg, r) ==
    /\ call = NoCall
    /\ call' = [hook |-> hook, arg |-> arg, before |-> self,
                after |-> r.self, raised |-> r.raised, value |-> r.value]
    /\ self' = r.self
    /\ UNCHANGED <<interpreter, environ, files, model_dir, lifecycle,
                   init_error, loads, req>>

CallPreprocess ==
    /\ Constructed
    /\ \E body \in Bodies : Invoke("preprocess", body, preprocess(self, body))

\* predict is handed what preprocess returned for some body
CallPredict ==
    /\ Constructed
    /\ \E body \in Bodies :
          LET p == preprocess(self, body)
          IN /\ ~ p.raised
             /\ Invoke("predict", p.value, predict(self, p.value))

CallPostprocess ==
    /\ Constructed
    /\ \E out \in Outputs : Invoke("postprocess", out, postprocess(self, out))

NextHooks ==
    \/ Construct
    \/ Load
    \/ CallPreprocess
    \/ CallPredict
    \/ CallPostprocess

SpecHooks == InitHooks /\ [][NextHooks]_vars

-----------------------------------------------------------------------------
(* The served adapter, with predict also invoked on an adapter that has not *)
(* been loaded                                                             *)

\* predict is called directly, handed what preprocess returned for a body,
\* before load or after a load that failed
PredictUnloaded ==
    /\ lifecycle \in {"unloaded", "load_failed"}
    /\ \E body \in ServeBodies :
          LET p == preprocess(self, body)
          IN /\ ~ p.raised
             /\ Invoke("predict", p.value, predict(self, p.value))

NextLifecycle ==
    \/ Next
    \/ PredictUnloaded

SpecLifecycle == Init /\ [][NextLifecycle]_vars

-----------------------------------------------------------------------------
(* Construction and load under every interpreter and environment *)

\* the model directory of the constructions under every environment
EnvModelDirs == {[h5 |-> "ok", predictor |-> Predictor128]}

InitEnv == InitWith(Interpreters, Environs, FileStates, EnvModelDirs)

NextEnv ==
    \/ Construct
    \/ Load

SpecEnv == InitEnv /\ [][NextEnv]_vars

-----------------------------------------------------------------------------
(* Properties *)

Range(f) == {f[i] : i \in DOMAIN f}

\* channel count of a decoded image, by its PIL mode
ChannelCount(f) == IF f.mode = "L" THEN 1 ELSE IF f.mode = "RGB" THEN 3 ELSE 4

HasInstances(body) == "instances" \in DOMAIN body

\* a body whose instances are N >= 1 images that all open and decode
ValidBatch(body) ==
    /\ HasInstances(body)
    /\ Len(body.instances) >= 1
    /\ \A i \in 1..Len(body.instances) : body.instances[i].kind = "image"

SameChannels(body) ==
    \A i, j \in 1..Len(body.instances) :
        ChannelCount(body.instances[i]) = ChannelCount(body.instances[j])

PreprocessCalled == call.hook = "preprocess"

\* the outcome is {'instances': [T]} with T of n samples of the given width
\* and height, in either order of the two spatial axes
OneTensorOf(c, n, w, h) ==
    /\ ~ c.raised
    /\ DOMAIN c.value = {"instances"}
    /\ Len(c.value.instances) = 1
    /\ Len(c.value.instances[1].shape) = 4
    /\ c.value.instances[1].shape[1] = n
    /\ {c.value.instances[1].shape[2], c.value.instances[1].shape[3]} = {w, h}

\* C1 as stated: every batch of N >= 1 valid images, whatever their sizes and
\* modes, is turned into one tensor of N images of the configured size.
C1_AnyValidBatch ==
    (PreprocessCalled /\ ValidBatch(call.arg)) =>
        OneTensorOf(call, Len(call.arg.instances),
                    call.before.IMAGE_WIDTH, call.before.IMAGE_HEIGHT)

\* C1 - with a configured width and height of at least 1, for every body
\* whose instances are N >= 1 valid images of one channel count C (of any
\* original sizes), preprocess returns {'instances': [T]} with
\* exactly one tensor T of shape (N, IMAGE_HEIGHT, IMAGE_WIDTH, C) holding the
\* N images in request order.
C1_SameChannelBatch ==
    (/\ PreprocessCalled /\ ValidBatch(call.arg) /\ SameChannels(call.arg)
     /\ call.before.IMAGE_WIDTH >= 1 /\ call.before.IMAGE_HEIGHT >= 1) =>
        /\ OneTensorOf(call, Len(call.arg.instances),
                       call.before.IMAGE_WIDTH, call.before.IMAGE_HEIGHT)
        /\ call.value.instances[1].shape =
              <<Len(call.arg.instances), call.before.IMAGE_HEIGHT,
                call.before.IMAGE_WIDTH, ChannelCount(call.arg.instances[1])>>
        /\ call.value.instances[1].data =
              [i \in 1..Len(call.arg.instances) |-> call.arg.instances[i].px]

C1_Witness ==
    /\ PreprocessCalled /\ ValidBatch(call.arg) /\ SameChannels(call.arg)
    /\ Len(call.arg.instances) = 2
    /\ call.arg.instances[1].size # call.arg.instances[2].size
    /\ call.before.IMAGE_WIDTH # call.before.IMAGE_HEIGHT
    /\ ~ call.raised

MaxOf(row) == CHOOSE m \in Range(row) : \A x \in Range(row) : m >= x

\* C2 - for every predictor output with at least one row, postprocess returns
\* a mapping with the single key 'Mask probability' whose value is the
\* maximum of row 0, whatever the later rows and the loaded class labels are.
C2_MaxOfFirstRow ==
    (call.hook = "postprocess" /\ Len(call.arg) >= 1) =>
        /\ ~ call.raised
        /\ DOMAIN call.value = {"Mask probability"}
        /\ call.value["Mask probability"] = MaxOf(call.arg[1])

C2_Witness ==
    /\ call.hook = "postprocess"
    /\ Len(call.arg) = 2
    /\ Len(call.arg[1]) = 2
    /\ MaxOf(call.arg[2]) > MaxOf(call.arg[1])
    /\ ~ call.before.classes.is_none
    /\ ~ call.raised
    /\ call.value["Mask probability"] = call.arg[1][2]

Malformed(f) == f.kind # "image"

\* C3 - if any image of body.instances is malformed, at whatever position,
\* preprocess returns nothing and raises the one generic error whose message
\* holds the original body.
C3_MalformedFailsWhole ==
    (/\ PreprocessCalled /\ HasInstances(call.arg)
     /\ \E i \in 1..Len(call.arg.instances) : Malformed(call.arg.instances[i]))
      => /\ call.raised
         /\ call.value.type = "Exception"
         /\ call.value.msg = <<"received: ", call.arg>>
         /\ call.after = call.before

C3_Witness ==
    /\ PreprocessCalled /\ HasInstances(call.arg)
    /\ Len(call.arg.instances) = 2
    /\ ~ Malformed(call.arg.instances[1])
    /\ Malformed(call.arg.instances[2])
    /\ call.raised

\* C4 as stated: a body without the instances key yields a tensor whose
\* leading dimension is 0.
C4_MissingKeyEmptyTensor ==
    (PreprocessCalled /\ ~ HasInstances(call.arg)) =>
        /\ ~ call.raised
        /\ Len(call.value.instances) = 1
        /\ call.value.instances[1].shape[1] = 0

\* C4 - a body without the instances key is read as an empty batch, the empty
\* batch cannot be stacked, and preprocess raises the generic error that
\* echoes the body: no tensor is produced.
C4_MissingKeyRaises ==
    (PreprocessCalled /\ ~ HasInstances(call.arg)) =>
        /\ call.raised
        /\ call.value.type = "Exception"
        /\ call.value.msg = <<"received: ", call.arg>>

C4_Witness ==
    /\ PreprocessCalled
    /\ ~ HasInstances(call.arg)
    /\ "inputs" \in DOMAIN call.arg /\ Len(call.arg.inputs) = 1
    /\ call.raised

ClassesFileParses ==
    /\ "classes_map" \in DOMAIN environ
    /\ files.exists /\ files.readable /\ files.wellformed

\* the environment with the classes_map variable as in the setting cs
WithClasses(env, cs) ==
    [k \in ((DOMAIN env) \ {"classes_map"}) \cup cs.keys |->
        IF k = "classes_map" THEN cs.val ELSE env[k]]

\* C5 - __init__ never raises because of the class-label mapping.  When it
\* raises, the error is the ValueError of a size setting, raised before the
\* mapping is touched, and it is raised whatever the classes_map variable
\* and the file it names are; with the default sizes it always completes.
\* When it completes, self.classes is the parsed mapping if the classes_map
\* file reads and parses, and None in every other case (variable unset,
\* file missing, unreadable or not valid JSON).
C5_ClassesNeverRaise ==
    /\ lifecycle = "init_failed" =>
          /\ init_error = Error("ValueError")
          /\ ~ HasAttr(self, "classes")
          /\ \A cs \in ClassesSettings, fs \in FileStates :
                __init__(NewObject, interpreter, WithClasses(environ, cs),
                         fs).raised
    /\ ("IMAGE_WIDTH" \notin DOMAIN environ
           /\ "IMAGE_HEIGHT" \notin DOMAIN environ)
          => lifecycle # "init_failed"
    /\ Constructed =>
          /\ HasAttr(self, "classes")
          /\ self.classes = IF ClassesFileParses
                            THEN [is_none |-> FALSE, value |-> files.doc]
                            ELSE [is_none |-> TRUE, value |-> <<>>]

C5_Witness ==
    /\ Constructed
    /\ "classes_map" \in DOMAIN environ
    /\ files.exists /\ files.readable /\ ~ files.wellformed
    /\ self.classes.is_none

\* C6 - the lifecycle is unloaded -> loaded -> serving.  Load runs once, and
\* before any request: it is called at most once, no step of a request runs
\* before it has returned, and after a load that raised (the artifact is
\* missing or unreadable) the adapter stays unserved.  Every step of every
\* preprocess/predict/postprocess cycle runs in the loaded state, with the
\* predictor that load read and that nothing replaces.  No predict yields a
\* prediction on an adapter that is not loaded: called before load or after
\* a failed load it raises the AttributeError of the missing predictor.
C6_Lifecycle ==
    /\ [](/\ loads <= 1
          /\ loads = 1 <=> lifecycle \in {"loaded", "load_failed"}
          /\ HasAttr(self, "model") <=> lifecycle = "loaded"
          /\ lifecycle = "loaded" =>
                model_dir.h5 = "ok" /\ self.model = model_dir.predictor
          /\ lifecycle = "load_failed" => model_dir.h5 # "ok"
          /\ \A i \in Slots :
                req[i].pc # "idle" =>
                    /\ lifecycle = "loaded"
                    /\ loads = 1
                    /\ HasAttr(self, "model")
          /\ (call.hook = "predict" /\ ~ HasAttr(call.before, "model")) =>
                call.raised /\ call.value = Error("AttributeError"))
    /\ [][/\ lifecycle = "loaded" => lifecycle' = "loaded"
          /\ lifecycle = "load_failed" => lifecycle' = "load_failed"
          /\ lifecycle' = "loaded" => lifecycle \in {"unloaded", "loaded"}
          /\ HasAttr(self, "model") =>
                HasAttr(self', "model") /\ self'.model = self.model
          /\ loads' # loads => \A i \in Slots : req[i].pc = "idle"
          /\ (\E i \in Slots : req'[i].pc # req[i].pc) =>
                /\ lifecycle = "loaded" /\ lifecycle' = "loaded"
                /\ loads = 1
                /\ HasAttr(self, "model")]_vars

\* predict was called on the unloaded adapter and raised; load then
\* succeeded and a request was served to its response
C6_Witness ==
    /\ lifecycle = "loaded"
    /\ loads = 1
    /\ call.hook = "predict"
    /\ ~ HasAttr(call.before, "model")
    /\ call.raised
    /\ \E i \in Slots :
          /\ req[i].pc = "done"
          /\ ~ req[i].raised
          /\ DOMAIN req[i].value = {"Mask probability"}

\* a request served on its own: body -> preprocess -> predict -> postprocess
ServeAlone(obj, body) ==
    LET a == preprocess(obj, body)
    IN IF a.raised THEN [raised |-> TRUE, value |-> a.value]
       ELSE LET b == predict(a.self, a.value)
            IN IF b.raised THEN [raised |-> TRUE, value |-> b.value]
               ELSE LET c == postprocess(b.self, b.value)
                    IN [raised |-> c.raised, value |-> c.value]

Outcome(r) == [raised |-> r.raised, value |-> r.value]

\* C7 - once load has completed no step writes a field of the adapter, and
\* every request that arrived after it ends, under any interleaving with the
\* other requests, with the response it gets when served alone.
C7_NoSharedWrites ==
    /\ [][lifecycle = "loaded" => self' = self]_vars
    /\ [](\A i \in Slots :
            (req[i].pc = "done" /\ req[i].after_load)
                => Outcome(req[i]) = ServeAlone(self, req[i].body))

C7_Witness ==
    /\ req[1].pc = "done" /\ req[1].after_load /\ ~ req[1].raised
    /\ req[2].pc = "predict" /\ req[2].after_load
    /\ req[1].body # req[2].body

\* C8 - with the model loaded, two requests with the same images end with
\* the identical response, whatever was served in between.
C8_Deterministic ==
    \A i, j \in Slots :
        (/\ req[i].pc = "done" /\ req[j].pc = "done"
         /\ req[i].after_load /\ req[j].after_load
         /\ req[i].body = req[j].body)
          => Outcome(req[i]) = Outcome(req[j])

C8_Witness ==
    /\ req[1].pc = "done" /\ req[2].pc = "done"
    /\ req[1].after_load /\ req[2].after_load
    /\ req[1].body = req[2].body
    /\ ~ req[1].raised
    /\ req[1].value = req[2].value

\* the loaded predictor rejects the tensor of data
Rejected(obj, data) ==
    Tail(data.instances[1].shape) # obj.model.input_shape

\* C9 - predict and postprocess do not catch or rewrap: predict on an input
\* the predictor rejects (or with no predictor) raises that error, postprocess
\* on an output without a first row raises the IndexError, neither returns a
\* payload nor the generic error that preprocess raises for its failures.
C9_ErrorsPropagate ==
    /\ (call.hook = "predict" /\ ~ HasAttr(call.before, "model"))
          => call.raised /\ call.value = Error("AttributeError")
    /\ (call.hook = "predict" /\ HasAttr(call.before, "model")
           /\ Rejected(call.before, call.arg))
          => call.raised /\ call.value = Error("ValueError")
    /\ (call.hook = "postprocess" /\ Len(call.arg) = 0)
          => call.raised /\ call.value = Error("IndexError")
    /\ (call.hook \in {"predict", "postprocess"} /\ call.raised)
          => call.value.type # "Exception" /\ call.value.msg = <<>>
    /\ (call.hook = "preprocess" /\ call.raised)
          => call.value.type = "Exception" /\ call.value.msg # <<>>

C9_Witness ==
    /\ call.hook = "predict"
    /\ HasAttr(call.before, "model")
    /\ Rejected(call.before, call.arg)
    /\ call.raised
    /\ call.value.type = "ValueError"

\* C10 - preprocess returns a tensor only for images of one channel count: a
\* batch of individually valid images whose channel counts differ fails as a
\* whole with the generic error echoing the body.
C10_MixedChannelsFail ==
    /\ (PreprocessCalled /\ ValidBatch(call.arg) /\ ~ SameChannels(call.arg))
          => /\ call.raised
             /\ call.value.type = "Exception"
             /\ call.value.msg = <<"received: ", call.arg>>
    /\ (PreprocessCalled /\ ~ call.raised)
          => ValidBatch(call.arg) /\ SameChannels(call.arg)

C10_Witness ==
    /\ PreprocessCalled /\ ValidBatch(call.arg)
    /\ Len(call.arg.instances) = 2
    /\ ChannelCount(call.arg.instances[1]) = 3
    /\ ChannelCount(call.arg.instances[2]) = 1
    /\ call.raised

====
